---- MODULE Spec2Model ----
(***************************************************************************)
(* Model of app/statsimpact/routes.py: the sector scope of the per-atelier *)
(* export and of the dashboard, the participant edit/delete POST actions   *)
(* of the dashboard, the parsing and clamping of the size caps, the        *)
(* per-atelier summary and the objective roll-up.                          *)
(*                                                                         *)
(* Strings are sequences of one-character strings; Python's None is the    *)
(* one-element sequence None, which is no string over the alphabets used.  *)
(* Dates are positive day numbers; NoDate (0) is a NULL date.              *)
(***************************************************************************)
EXTENDS Integers, Sequences, FiniteSets, TLC

VARIABLES current_user, ateliers, sessions, participants, presences, files,
          args, response, objectifs, evaluations, result, inflight

vars == <<current_user, ateliers, sessions, participants, presences, files,
          args, response, objectifs, evaluations, result, inflight>>

db == <<ateliers, sessions, participants, presences>>

\* the objectives, the evaluations and the result of the objective roll-up
pedago == <<objectifs, evaluations, result>>

\* inflight: the delete request that has passed its sector check and has
\* not yet run its try block, or NoRequest
NoRequest == [participant_id |-> 0, checked |-> {}]

----------------------------------------------------------------------------
(* Bounds of the model *)

\* longest sector string (assigned or requested)
MaxStrLen == 2
\* longest raw max_sessions / max_participants query value
MaxRawLen == 4
\* last day number
MaxDate == 3
\* days in a year
DaysPerYear == 2

----------------------------------------------------------------------------
(* Strings and Python truthiness *)

None == <<"None">>

NoDate == 0

StrOver(chars, n) == UNION {[1..k -> chars] : k \in 0..n}

Opt(S) == S \cup {None}

\* bool(x) of a str-or-None
Truthy(x) == x # None /\ x # <<>>

\* x or y
Or(x, y) == IF Truthy(x) THEN x ELSE y

IsSpace(c) == c = " "

RECURSIVE LStrip(_)
LStrip(s) == IF s # <<>> /\ IsSpace(Head(s)) THEN LStrip(Tail(s)) ELSE s

RECURSIVE RStrip(_)
RStrip(s) ==
    IF s # <<>> /\ IsSpace(s[Len(s)]) THEN RStrip(SubSeq(s, 1, Len(s) - 1)) ELSE s

\* str.strip()
Strip(s) == RStrip(LStrip(s))

\* collation of the characters used, for ORDER BY on strings
CharOrder == <<" ", "A", "H", "N", "S">>

CharRank(c) == CHOOSE i \in 1..Len(CharOrder) : CharOrder[i] = c

RECURSIVE StrLess(_, _)
StrLess(a, b) ==
    IF b = <<>> THEN FALSE
    ELSE IF a = <<>> THEN TRUE
    ELSE IF Head(a) # Head(b) THEN CharRank(Head(a)) < CharRank(Head(b))
    ELSE StrLess(Tail(a), Tail(b))

----------------------------------------------------------------------------
(* RBAC *)

Capabilities ==
    {"statsimpact:view", "statsimpact:view_all", "scope:all_secteurs",
     "participants:view_all"}

\* app.rbac.can, for the logged-in user
can(capability) == capability \in current_user.caps

can_view == can("statsimpact:view") \/ can("statsimpact:view_all")

\* (getattr(current_user, "secteur_assigne", None) or "").strip()
user_secteur_stripped == Strip(Or(current_user.secteur_assigne, <<>>))

----------------------------------------------------------------------------
(* Stored data *)

\* number of workshops (AtelierActivite rows)
NAteliers == 2

SectChars == {" ", "N", "S"}

\* the sector names workshops and sessions carry
SecteurNames == {<<"N">>, <<"S">>}

\* sector strings a user may be assigned or a request may name
SecteurStrings == StrOver(SectChars, MaxStrLen)

AtelierIds == 1..NAteliers

\* AtelierActivite.nom: distinct names "A", "AA", ...
AtelierNom(i) == [k \in 1..i |-> "A"]

\* coalesce(SessionActivite.rdv_date, SessionActivite.date_session)
EffDate(s) == IF s.rdv_date # NoDate THEN s.rdv_date ELSE s.date_session

SessionIds == DOMAIN sessions

PresenceIds == DOMAIN presences

\* ORDER BY AtelierActivite.secteur ASC, AtelierActivite.nom ASC
AtelierBefore(a, b) ==
    \/ StrLess(ateliers[a].secteur, ateliers[b].secteur)
    \/ /\ ateliers[a].secteur = ateliers[b].secteur
       /\ StrLess(AtelierNom(a), AtelierNom(b))

\* the workshops of S as the ordered list the query returns
RECURSIVE OrderAteliers(_)
OrderAteliers(S) ==
    IF S = {} THEN <<>>
    ELSE LET m == CHOOSE x \in S : \A y \in S \ {x} : AtelierBefore(x, y)
         IN <<m>> \o OrderAteliers(S \ {m})

\* ORDER BY coalesce(rdv_date, date_session) ASC, SessionActivite.id ASC
SessionBefore(s, t) ==
    \/ EffDate(sessions[s]) < EffDate(sessions[t])
    \/ EffDate(sessions[s]) = EffDate(sessions[t]) /\ s < t

\* the sessions of S as the ordered list the query returns
RECURSIVE OrderSessions(_)
OrderSessions(S) ==
    IF S = {} THEN <<>>
    ELSE LET m == CHOOSE x \in S : \A y \in S \ {x} : SessionBefore(x, y)
         IN <<m>> \o OrderSessions(S \ {m})

----------------------------------------------------------------------------
(* Filters (app/statsimpact/engine.py, described by the specification) *)

\* normalize_filters: an empty or missing secteur is None; dates arrive parsed
normalize_filters(a) ==
    [secteur |-> IF Truthy(a.secteur) THEN a.secteur ELSE None,
     date_from |-> a.date_from,
     date_to |-> a.date_to]

\* the date filter shared by the queries: both bounds inclusive, a NULL date
\* matches no bound
InPeriod(d, flt) ==
    /\ flt.date_from # NoDate => (d # NoDate /\ d >= flt.date_from)
    /\ flt.date_to # NoDate => (d # NoDate /\ d <= flt.date_to)

----------------------------------------------------------------------------
(* _build_magato_per_atelier_workbook *)

\* mutant: the requested sector wins over the assigned one
per_atelier_eff_secteur_requested_first(flt) ==
    IF can("scope:all_secteurs") THEN flt.secteur
    ELSE Or(flt.secteur, user_secteur_stripped)

\* mutant: the capability is not consulted
per_atelier_eff_secteur_no_capability(flt) ==
    Or(user_secteur_stripped, flt.secteur)

\* eff_secteur of the per-atelier export
per_atelier_eff_secteur(flt) ==
    IF can("scope:all_secteurs") THEN flt.secteur
    ELSE Or(user_secteur_stripped, flt.secteur)

\* aq: the workshops in the perimeter
per_atelier_ateliers(flt) ==
    LET eff == per_atelier_eff_secteur(flt)
    IN {a \in AtelierIds :
          /\ ~ateliers[a].is_deleted
          /\ Truthy(eff) => ateliers[a].secteur = eff}

\* mutant: the period is tested on date_session alone
per_atelier_sessions_date_session_only(at, flt) ==
    {s \in SessionIds :
       /\ sessions[s].atelier_id = at
       /\ InPeriod(sessions[s].date_session, flt)}

\* sess_q: the sessions of workshop at in the period
per_atelier_sessions(at, flt) ==
    {s \in SessionIds :
       /\ sessions[s].atelier_id = at
       /\ InPeriod(EffDate(sessions[s]), flt)}

\* pres_rows: the presence rows of the sessions sids
pres_rows(sids) == {p \in PresenceIds : presences[p].session_id \in sids}

\* mutant: the participant ids are not deduplicated
pid_set_not_deduplicated(sids) == pres_rows(sids)

\* pid_set
pid_set(sids) == {presences[p].participant_id : p \in pres_rows(sids)}

SetMin(S) == CHOOSE x \in S : \A y \in S : x <= y

\* c_map: per participant, the number of presences in the sessions sids and
\* the earliest date of those sessions (min ignores NULL)
c_map(sids) ==
    [pid \in pid_set(sids) |->
        LET mine == {p \in pres_rows(sids) : presences[p].participant_id = pid}
            dates == {EffDate(sessions[presences[p].session_id]) : p \in mine}
                         \ {NoDate}
        IN [nb |-> Cardinality(mine),
            first |-> IF dates = {} THEN NoDate ELSE SetMin(dates)]]

new_count(sids, flt) ==
    Cardinality({pid \in pid_set(sids) :
        LET fd == c_map(sids)[pid].first
        IN /\ fd # NoDate /\ flt.date_from # NoDate /\ flt.date_to # NoDate
           /\ flt.date_from <= fd /\ fd <= flt.date_to})

\* mutant: every presence row of a participant seen twice is counted
recurring_per_presence(sids) ==
    Cardinality({p \in pres_rows(sids) :
                   c_map(sids)[presences[p].participant_id].nb >= 2})

recurring(sids) ==
    Cardinality({pid \in pid_set(sids) : c_map(sids)[pid].nb >= 2})

\* the row of workshop at on the "Synthese" sheet
summary_row(at, flt) ==
    LET sids == per_atelier_sessions(at, flt)
        base == [atelier |-> at, secteur |-> ateliers[at].secteur,
                 nb_sessions |-> 0, nb_presences |-> 0, uniques |-> 0,
                 nouveaux |-> 0, recurrents |-> 0]
    IN IF sids = {} THEN base
       ELSE IF pres_rows(sids) = {}
            THEN [base EXCEPT !.nb_sessions = Cardinality(sids)]
       ELSE [base EXCEPT !.nb_sessions = Cardinality(sids),
                         !.nb_presences = Cardinality(pres_rows(sids)),
                         !.uniques = Cardinality(pid_set(sids)),
                         !.nouveaux = new_count(sids, flt),
                         !.recurrents = recurring(sids)]

\* mutant: a workshop without session in the period is skipped
build_magato_per_atelier_workbook_skip_empty(flt) ==
    LET ats == OrderAteliers({a \in per_atelier_ateliers(flt) :
                                per_atelier_sessions(a, flt) # {}})
    IN [i \in 1..Len(ats) |-> summary_row(ats[i], flt)]

\* ws0: one row per workshop of the perimeter, in the order of the query
build_magato_per_atelier_workbook(flt) ==
    LET ats == OrderAteliers(per_atelier_ateliers(flt))
    IN [i \in 1..Len(ats) |-> summary_row(ats[i], flt)]

----------------------------------------------------------------------------
(* The size caps max_sessions and max_participants *)

RawChars == {" ", "-", "0", "5", "x"}

DigitChars == {"0", "1", "2", "3", "5"}

\* raw query values: absent (None) or a string
RawValues == Opt(StrOver(RawChars, MaxRawLen))

DigitValue(c) ==
    CASE c = "0" -> 0 [] c = "1" -> 1 [] c = "2" -> 2 [] c = "3" -> 3
      [] c = "5" -> 5

RECURSIVE DigitsValue(_)
DigitsValue(ds) ==
    IF ds = <<>> THEN 0
    ELSE 10 * DigitsValue(SubSeq(ds, 1, Len(ds) - 1)) + DigitValue(ds[Len(ds)])

\* int(s) of a str: surrounding whitespace and one leading sign are accepted;
\* anything else than decimal digits raises ValueError
ParseInt(s) ==
    LET t == Strip(s)
        neg == t # <<>> /\ Head(t) = "-"
        ds == IF neg THEN Tail(t) ELSE t
    IN IF ds = <<>> \/ \E i \in 1..Len(ds) : ds[i] \notin DigitChars
       THEN [raised |-> TRUE, val |-> 0]
       ELSE [raised |-> FALSE,
             val |-> IF neg THEN 0 - DigitsValue(ds) ELSE DigitsValue(ds)]

DefaultMaxSessions == 40

DefaultMaxParticipants == 250

\* mutant: no except clause, the ValueError propagates
int_or_default_uncaught(raw, default) ==
    IF Truthy(raw) THEN ParseInt(raw) ELSE [raised |-> FALSE, val |-> default]

\* try: v = int(raw or default) / except Exception: v = default
int_or_default(raw, default) ==
    LET r == IF Truthy(raw) THEN ParseInt(raw)
             ELSE [raised |-> FALSE, val |-> default]
    IN IF r.raised THEN [raised |-> FALSE, val |-> default] ELSE r

Max(a, b) == IF a >= b THEN a ELSE b

Min(a, b) == IF a <= b THEN a ELSE b

MinCapSessions == 5

MinCapParticipants == 20

ExportMaxSessions == 400

ExportMaxParticipants == 5000

DashboardMaxSessions == 200

DashboardMaxParticipants == 1000

\* mutant: the lower bound is forgotten
export_clamp_sessions_no_floor(v) == Min(v, ExportMaxSessions)

\* bornes (export raisonnable)
export_clamp_sessions(v) == Max(MinCapSessions, Min(v, ExportMaxSessions))

export_clamp_participants(v) ==
    Max(MinCapParticipants, Min(v, ExportMaxParticipants))

\* bornes de securite (dashboard)
dashboard_clamp_sessions(v) == Max(MinCapSessions, Min(v, DashboardMaxSessions))

dashboard_clamp_participants(v) ==
    Max(MinCapParticipants, Min(v, DashboardMaxParticipants))

----------------------------------------------------------------------------
(* Dates *)

Dates == 1..MaxDate

YearOf(d) == (d - 1) \div DaysPerYear + 1

\* date(year, 1, 1) and date(year, 12, 31)
YearStart(y) == (y - 1) * DaysPerYear + 1

YearEnd(y) == y * DaysPerYear

----------------------------------------------------------------------------
(* The participant roster (compute_participants_stats of                   *)
(* app/statsimpact/engine.py, described by the specification)              *)

\* EffectiveSecteur of the specification
engine_eff_secteur(flt) ==
    IF can("scope:all_secteurs") THEN flt.secteur
    ELSE IF Truthy(user_secteur_stripped) THEN user_secteur_stripped
    ELSE <<>>

\* the ids of the participants with a presence in scope; a caller without
\* scope:all_secteurs and without a sector sees nobody
compute_participants_stats(flt) ==
    IF ~can("scope:all_secteurs") /\ ~Truthy(user_secteur_stripped) THEN {}
    ELSE {presences[p].participant_id : p \in
            {q \in PresenceIds :
               LET s == sessions[presences[q].session_id]
                   at == ateliers[s.atelier_id]
                   eff == engine_eff_secteur(flt)
               IN /\ ~at.is_deleted
                  /\ InPeriod(EffDate(s), flt)
                  /\ Truthy(eff) => at.secteur = eff}}

----------------------------------------------------------------------------
(* compute_magatomatique (app/statsimpact/engine.py, described by the      *)
(* specification): the result is flagged restricted, with no payload, when *)
(* a caller without scope:all_secteurs asks for a sector other than theirs *)

NoMagato ==
    [computed |-> FALSE, restricted |-> FALSE, view |-> "none",
     max_sessions |-> 0, max_participants |-> 0,
     sessions |-> <<>>, participants |-> <<>>, matrix |-> {}]

\* the first n elements of a list
Prefix(seq, n) == SubSeq(seq, 1, Min(Len(seq), n))

Range(seq) == {seq[i] : i \in DOMAIN seq}

\* ORDER BY Participant.nom ASC, then by id
ParticipantBefore(p, q) ==
    \/ StrLess(participants[p].nom, participants[q].nom)
    \/ participants[p].nom = participants[q].nom /\ p < q

\* the participants of S as an ordered list
RECURSIVE OrderParticipants(_)
OrderParticipants(S) ==
    IF S = {} THEN <<>>
    ELSE LET m == CHOOSE x \in S : \A y \in S \ {x} : ParticipantBefore(x, y)
         IN <<m>> \o OrderParticipants(S \ {m})

\* the sessions of the filtered scope
magato_sessions(flt) ==
    IF ~can("scope:all_secteurs") /\ ~Truthy(user_secteur_stripped) THEN {}
    ELSE {s \in SessionIds :
            LET at == ateliers[sessions[s].atelier_id]
                eff == engine_eff_secteur(flt)
            IN /\ ~at.is_deleted
               /\ InPeriod(EffDate(sessions[s]), flt)
               /\ Truthy(eff) => at.secteur = eff}

\* the matrix view lists at most max_sessions sessions in the filtered
\* order and at most max_participants participants in the order of their
\* names, and records the pairs of the two lists that have a presence
compute_magatomatique(flt, view, max_sessions, max_participants) ==
    LET restricted ==
            /\ ~can("scope:all_secteurs")
            /\ Truthy(flt.secteur)
            /\ flt.secteur # user_secteur_stripped
        matrix_view == ~restricted /\ view = "matrix"
        sess == IF matrix_view
                THEN Prefix(OrderSessions(magato_sessions(flt)), max_sessions)
                ELSE <<>>
        parts == IF matrix_view
                 THEN Prefix(OrderParticipants(
                                 compute_participants_stats(flt)
                                 \cap DOMAIN participants),
                             max_participants)
                 ELSE <<>>
    IN [computed |-> TRUE, restricted |-> restricted,
        view |-> IF restricted THEN "none" ELSE view,
        max_sessions |-> max_sessions, max_participants |-> max_participants,
        sessions |-> sess, participants |-> parts,
        matrix |-> {c \in Range(parts) \X Range(sess) :
                      \E q \in PresenceIds :
                         /\ presences[q].participant_id = c[1]
                         /\ presences[q].session_id = c[2]}]

----------------------------------------------------------------------------
(* Responses *)

\* a sheet of a workbook that was not created
NoSheet == [made |-> FALSE, rows |-> <<>>, columns |-> <<>>, cells |-> {}]

NoResponse ==
    [route |-> "none", status |-> 0, flash |-> <<>>, eff_secteur |-> None,
     workbook |-> "none", rows |-> <<>>, years |-> {}, ateliers |-> <<>>,
     secteurs |-> {}, roster |-> {}, magato |-> NoMagato,
     max_sessions |-> 0, max_participants |-> 0,
     sheets |-> <<>>, matrice |-> NoSheet, participations |-> {}]

\* no objective and no evaluation stored, no roll-up computed
NoPedago == objectifs = <<>> /\ evaluations = <<>> /\ result = <<>>

\* abort(code)
Abort(route, code) == [NoResponse EXCEPT !.route = route, !.status = code]

----------------------------------------------------------------------------
(* The attendance sheets of the two workbooks *)

\* mutant: a participant with a presence is marked on every session
sheet_cells_whole_row(parts, sids) ==
    {c \in Range(parts) \X sids :
        \E q \in pres_rows(sids) : presences[q].participant_id = c[1]}

\* present and the loop over sid_index: the cells that receive "1"
sheet_cells(parts, sids) ==
    {c \in Range(parts) \X sids :
        \E q \in pres_rows(sids) :
           /\ presences[q].participant_id = c[1]
           /\ presences[q].session_id = c[2]}

\* the sheet of workshop at: none without session in the period, the
\* header alone without presence, else one row per participant
per_atelier_sheet(at, flt) ==
    LET sids == per_atelier_sessions(at, flt)
        parts == OrderParticipants(pid_set(sids) \cap DOMAIN participants)
    IN IF sids = {} THEN NoSheet
       ELSE IF pres_rows(sids) = {}
            THEN [NoSheet EXCEPT !.made = TRUE,
                                 !.columns = OrderSessions(sids)]
       ELSE [made |-> TRUE, rows |-> parts, columns |-> OrderSessions(sids),
             cells |-> sheet_cells(parts, sids)]

\* the sheets of the per-atelier workbook, one entry per workshop
per_atelier_sheets(flt) ==
    LET ats == OrderAteliers(per_atelier_ateliers(flt))
    IN [i \in 1..Len(ats) |-> per_atelier_sheet(ats[i], flt)]

\* ws3 "Matrice": made for the matrix view with sessions and participants
flat_matrice(magato) ==
    IF magato.view = "matrix" /\ magato.sessions # <<>>
       /\ magato.participants # <<>>
    THEN [made |-> TRUE, rows |-> magato.participants,
          columns |-> magato.sessions,
          cells |-> {c \in Range(magato.participants)
                            \X Range(magato.sessions) : c \in magato.matrix}]
    ELSE NoSheet

\* ws4 "Participations": one row per marked pair
flat_participations(magato) ==
    IF flat_matrice(magato).made
    THEN {c \in Range(magato.participants) \X Range(magato.sessions) :
             c \in magato.matrix}
    ELSE {}

----------------------------------------------------------------------------
(* GET /stats-impact/magatomatique.xlsx *)

magatomatique_export(a) ==
    LET flt == normalize_filters(a)
        ms == int_or_default(a.max_sessions, DefaultMaxSessions)
        mp == int_or_default(a.max_participants, DefaultMaxParticipants)
        max_sessions == export_clamp_sessions(ms.val)
        max_participants == export_clamp_participants(mp.val)
        magato == compute_magatomatique(flt, a.magato_view, max_sessions,
                                        max_participants)
        route == "magatomatique_export"
    IN /\ response' =
            IF ~can_view THEN Abort(route, 403)
            ELSE IF ms.raised \/ mp.raised THEN Abort(route, 500)
            ELSE IF a.export_mode = "per_atelier"
            THEN [NoResponse EXCEPT
                    !.route = route, !.status = 200,
                    !.workbook = "per_atelier",
                    !.eff_secteur = per_atelier_eff_secteur(flt),
                    !.rows = build_magato_per_atelier_workbook(flt),
                    !.sheets = per_atelier_sheets(flt),
                    !.max_sessions = max_sessions,
                    !.max_participants = max_participants]
            ELSE IF magato.restricted
            THEN [Abort(route, 403) EXCEPT
                    !.magato = magato,
                    !.max_sessions = max_sessions,
                    !.max_participants = max_participants]
            ELSE [NoResponse EXCEPT
                    !.route = route, !.status = 200,
                    !.workbook = "flat",
                    !.magato = magato,
                    !.matrice = flat_matrice(magato),
                    !.participations = flat_participations(magato),
                    !.max_sessions = max_sessions,
                    !.max_participants = max_participants]
       /\ UNCHANGED <<current_user, ateliers, sessions, participants,
                      presences, files, args, pedago,
                      inflight>>

----------------------------------------------------------------------------
(* /stats-impact: the page (GET, or a POST with no participant action) *)

\* flt after "Default: current year if no dates"
dashboard_filters(a, today) ==
    LET flt == normalize_filters(a)
    IN IF flt.date_from = NoDate /\ flt.date_to = NoDate
       THEN [flt EXCEPT !.date_from = YearStart(YearOf(today)),
                        !.date_to = YearEnd(YearOf(today))]
       ELSE flt

\* eff_secteur of the available-years query
dashboard_eff_secteur(flt) ==
    IF can("scope:all_secteurs") THEN flt.secteur
    ELSE Or(user_secteur_stripped, flt.secteur)

\* years: the years of the dated sessions of the workshops in the perimeter
available_years(flt) ==
    LET eff == dashboard_eff_secteur(flt)
    IN {YearOf(EffDate(sessions[s])) : s \in
          {t \in SessionIds :
             /\ EffDate(sessions[t]) # NoDate
             /\ ~ateliers[sessions[t].atelier_id].is_deleted
             /\ Truthy(eff) => ateliers[sessions[t].atelier_id].secteur = eff}}

\* secteurs: offered to the callers who may choose a sector
dashboard_secteurs ==
    IF can("statsimpact:view_all") \/ can("scope:all_secteurs")
    THEN {ateliers[a].secteur : a \in {b \in AtelierIds :
              ~ateliers[b].is_deleted /\ Truthy(ateliers[b].secteur)}}
    ELSE {}

\* ateliers: the workshop list of the page, filtered by flt.secteur
dashboard_ateliers(flt) ==
    OrderAteliers({a \in AtelierIds :
        /\ ~ateliers[a].is_deleted
        /\ Truthy(flt.secteur) => ateliers[a].secteur = flt.secteur})

\* le Magatomatique: computed only when its tab is shown
dashboard_magato(a, flt) ==
    LET ms == int_or_default(a.max_sessions, DefaultMaxSessions)
        mp == int_or_default(a.max_participants, DefaultMaxParticipants)
    IN IF a.tab # "magato" THEN [raised |-> FALSE, magato |-> NoMagato]
       ELSE [raised |-> ms.raised \/ mp.raised,
             magato |-> compute_magatomatique(
                            flt, a.magato_view,
                            dashboard_clamp_sessions(ms.val),
                            dashboard_clamp_participants(mp.val))]

\* years_fail: the available-years query raises, and the page shows no year
dashboard_view(a, today, years_fail) ==
    LET flt == dashboard_filters(a, today)
        m == dashboard_magato(a, flt)
        route == "dashboard"
    IN /\ response' =
            IF ~can_view THEN Abort(route, 403)
            ELSE IF m.raised THEN Abort(route, 500)
            ELSE [NoResponse EXCEPT
                    !.route = route, !.status = 200,
                    !.roster = compute_participants_stats(flt),
                    !.magato = m.magato,
                    !.max_sessions = m.magato.max_sessions,
                    !.max_participants = m.magato.max_participants,
                    !.secteurs = dashboard_secteurs,
                    !.ateliers = dashboard_ateliers(flt),
                    !.eff_secteur = dashboard_eff_secteur(flt),
                    !.years = IF years_fail THEN {} ELSE available_years(flt)]
       /\ UNCHANGED <<current_user, ateliers, sessions, participants,
                      presences, files, args, pedago,
                      inflight>>

----------------------------------------------------------------------------
(* POST /stats-impact: update_participant and delete_participant *)

\* str.upper() over the characters used
UpperChar(c) == CASE c = "a" -> "A" [] c = "h" -> "H" [] OTHER -> c

Upper(s) == [i \in 1..Len(s) |-> UpperChar(s[i])]

\* try: int(request.form.get("participant_id", "0")) / except: 0
form_participant_id(raw) ==
    LET r == ParseInt(IF raw = None THEN <<"0">> ELSE raw)
    IN IF r.raised THEN 0 ELSE r.val

\* allowed_ids: the roster computed for the filters of the request
\* mutant: every stored participant is allowed
allowed_ids_every_stored(a, today) == DOMAIN participants

allowed_ids(a, today) == compute_participants_stats(dashboard_filters(a, today))

\* flash(message, category) followed by the redirect to the dashboard
Redirect(category, message) ==
    [NoResponse EXCEPT !.route = "dashboard_post", !.status = 302,
                       !.flash = <<[category |-> category, message |-> message]>>]

\* the attributes of participant p after the assignments of the form
updated_participant(p, form) ==
    [nom |-> Or(Strip(Or(Or(form.nom, p.nom), <<>>)), p.nom),
     ville |-> Or(Strip(Or(form.ville, <<>>)), None),
     type_public |->
        Upper(Strip(Or(Or(form.type_public, p.type_public), <<"H">>)))]

\* action == "update_participant"; commit_fails: db.session.commit() raises
dashboard_update_participant(a, today, form, commit_fails) ==
    LET participant_id == form_participant_id(form.participant_id)
    IN /\ UNCHANGED <<current_user, ateliers, sessions, presences, files, args,
                      pedago, inflight>>
       /\ IF ~can_view
          THEN /\ response' = Abort("dashboard_post", 403)
               /\ UNCHANGED participants
          ELSE IF participant_id = 0 \/ participant_id \notin allowed_ids(a, today)
          THEN /\ response' = Abort("dashboard_post", 403)
               /\ UNCHANGED participants
          ELSE IF participant_id \notin DOMAIN participants
          THEN /\ response' = Abort("dashboard_post", 404)
               /\ UNCHANGED participants
          ELSE IF commit_fails
          THEN /\ response' = Redirect("danger", "save_failed")
               /\ UNCHANGED participants
          ELSE /\ response' = Redirect("success", "participant_updated")
               /\ participants' =
                     [participants EXCEPT ![participant_id] =
                         updated_participant(participants[participant_id], form)]

\* mutant: only the first presence row of the participant
presences_of_first_row(participant_id) ==
    {p \in PresenceIds :
        /\ presences[p].participant_id = participant_id
        /\ \A q \in PresenceIds :
              presences[q].participant_id = participant_id => p <= q}

\* the presence rows of a participant
presences_of(participant_id) ==
    {p \in PresenceIds : presences[p].participant_id = participant_id}

\* sectors: the distinct non-empty SessionActivite.secteur of the sessions
\* the participant signed in
presence_sectors(participant_id) ==
    {sec \in {sessions[presences[p].session_id].secteur :
                 p \in presences_of(participant_id)} : Truthy(sec)}

\* the sector check of delete_participant refuses the request
delete_refused(participant_id) ==
    /\ ~can("participants:view_all")
    /\ presence_sectors(participant_id) # {}
    /\ presence_sectors(participant_id) # {user_secteur_stripped}

\* mutant: the refusal is flashed but the handler does not return, and the
\* deletion goes on
refuse_delete_falls_through(participant_id) ==
    /\ response' =
          [Redirect("danger", "delete_refused") EXCEPT
              !.flash = @ \o <<[category |-> "success",
                                message |-> "participant_deleted"]>>]
    /\ files' = files \ {presences[p].signature_path :
                            p \in presences_of(participant_id)}
    /\ presences' = [p \in PresenceIds \ presences_of(participant_id) |->
                        presences[p]]
    /\ participants' = [p \in DOMAIN participants \ {participant_id} |->
                           participants[p]]

\* the refusal: a flash of category danger and the redirect, nothing else
refuse_delete(participant_id) ==
    /\ response' = Redirect("danger", "delete_refused")
    /\ UNCHANGED <<participants, presences, files>>

\* the signature files os.remove deletes while the presences in done are
\* processed; removing those in unremovable raises and is ignored
removed_files(done, unremovable) ==
    {path \in {presences[p].signature_path : p \in done} :
        Truthy(path) /\ path \in files /\ path \notin unremovable}

\* action == "delete_participant". fails: an exception is raised inside the
\* try block after the presences in done have been processed (the query,
\* a delete or the commit raises); otherwise every presence is processed
dashboard_delete_participant(a, today, raw_id, fails, done, unremovable) ==
    LET participant_id == form_participant_id(raw_id)
        own == presences_of(participant_id)
    IN /\ UNCHANGED <<current_user, ateliers, sessions, args, pedago,
                      inflight>>
       /\ IF ~can_view
          THEN /\ response' = Abort("dashboard_post", 403)
               /\ UNCHANGED <<participants, presences, files>>
          ELSE IF participant_id = 0 \/ participant_id \notin allowed_ids(a, today)
          THEN /\ response' = Abort("dashboard_post", 403)
               /\ UNCHANGED <<participants, presences, files>>
          ELSE IF participant_id \notin DOMAIN participants
          THEN /\ response' = Abort("dashboard_post", 404)
               /\ UNCHANGED <<participants, presences, files>>
          ELSE IF delete_refused(participant_id)
          THEN refuse_delete(participant_id)
          ELSE IF fails
          THEN /\ done \subseteq own
               /\ response' = Redirect("danger", "delete_failed")
               /\ files' = files \ removed_files(done, unremovable)
               /\ UNCHANGED <<participants, presences>>
          ELSE /\ done = own
               /\ response' = Redirect("success", "participant_deleted")
               /\ files' = files \ removed_files(own, unremovable)
               /\ presences' = [p \in PresenceIds \ own |-> presences[p]]
               /\ participants' =
                     [p \in DOMAIN participants \ {participant_id} |->
                         participants[p]]

----------------------------------------------------------------------------
(* Request arguments *)

NoArgs ==
    [secteur |-> None, date_from |-> NoDate, date_to |-> NoDate,
     export_mode |-> "flat", tab |-> "base", magato_view |-> "macro",
     max_sessions |-> None, max_participants |-> None,
     method |-> "GET", action |-> "none", atelier_id |-> 0]

----------------------------------------------------------------------------
(* Specification of the sector scope: any caller, any requested sector *)

ScopeCaps == {"statsimpact:view", "scope:all_secteurs"}

\* the request: any secteur value, either export mode
ScopeArgs ==
    {[NoArgs EXCEPT !.secteur = sec, !.export_mode = mode, !.tab = "magato"] :
        sec \in Opt(SecteurStrings), mode \in {"flat", "per_atelier"}}

\* workshops alternate between the two sectors; any of them may be deleted,
\* and each has one dated session
InitScope ==
    /\ current_user \in [caps : SUBSET ScopeCaps,
                          secteur_assigne : Opt(SecteurStrings)]
    /\ \E deleted \in SUBSET AtelierIds :
          ateliers = [a \in AtelierIds |->
                        [secteur |-> IF a % 2 = 1 THEN <<"N">> ELSE <<"S">>,
                         is_deleted |-> a \in deleted]]
    /\ sessions = [s \in AtelierIds |->
                     [atelier_id |-> s, secteur |-> ateliers[s].secteur,
                      rdv_date |-> NoDate,
                      date_session |-> ((s - 1) % MaxDate) + 1]]
    /\ participants = <<>>
    /\ presences = <<>>
    /\ files = {}
    /\ args \in ScopeArgs
    /\ response = NoResponse
    /\ NoPedago
    /\ inflight = NoRequest

ScopeExport == magatomatique_export(args)

ScopeDashboard ==
    \E today \in Dates, years_fail \in BOOLEAN :
        dashboard_view(args, today, years_fail)

NextScope == ScopeExport \/ ScopeDashboard

SpecScope == InitScope /\ [][NextScope]_vars

----------------------------------------------------------------------------
(* Properties of the sector scope *)

\* s has a character other than a space
NonBlank(s) == s # None /\ \E i \in 1..Len(s) : s[i] # " "

\* t is s without its leading and trailing spaces
IsTrimOf(t, s) ==
    /\ t = <<>> \/ (t[1] # " " /\ t[Len(t)] # " ")
    /\ \E i \in 0..Len(s) :
          /\ i + Len(t) <= Len(s)
          /\ SubSeq(s, i + 1, i + Len(t)) = t
          /\ \A k \in 1..Len(s) : (k <= i \/ k > i + Len(t)) => s[k] = " "

PerAtelierServed ==
    response.route = "magatomatique_export" /\ response.workbook = "per_atelier"

DashboardServed == response.route = "dashboard" /\ response.status = 200

RowSecteurs == {response.rows[i].secteur : i \in 1..Len(response.rows)}

RowAteliers == {response.rows[i].atelier : i \in 1..Len(response.rows)}

\* C1: for a caller without scope:all_secteurs whose assigned sector is not
\* blank, the per-atelier export and the available-years query of the
\* dashboard use the assigned sector (trimmed) whatever secteur is requested:
\* every exported workshop and every listed year belongs to that sector.
C1_AssignedSectorOverridesRequest ==
    (~can("scope:all_secteurs") /\ NonBlank(current_user.secteur_assigne)
     /\ (PerAtelierServed \/ DashboardServed))
    => /\ IsTrimOf(response.eff_secteur, current_user.secteur_assigne)
       /\ \A sec \in RowSecteurs :
              IsTrimOf(sec, current_user.secteur_assigne)
       /\ \A y \in response.years :
              \E s \in SessionIds :
                 /\ YearOf(EffDate(sessions[s])) = y
                 /\ IsTrimOf(ateliers[sessions[s].atelier_id].secteur,
                             current_user.secteur_assigne)

\* a caller assigned " N" asks for S and the export lists a workshop of N
C1_Witness ==
    /\ ~can("scope:all_secteurs")
    /\ current_user.secteur_assigne = <<" ", "N">>
    /\ args.secteur = <<"S">>
    /\ PerAtelierServed
    /\ RowSecteurs = {<<"N">>}

\* C2: whatever the assigned sector of a caller without scope:all_secteurs
\* (empty and blank included) and whatever secteur is requested, the
\* per-atelier export lists no workshop of a sector other than the assigned
\* one.
C2_NoOtherSectorExported ==
    (~can("scope:all_secteurs") /\ PerAtelierServed)
    => \A sec \in RowSecteurs :
          /\ current_user.secteur_assigne # None
          /\ IsTrimOf(sec, current_user.secteur_assigne)

\* C3: for a caller with scope:all_secteurs the effective sector is the
\* secteur of the filter whatever the assigned sector, and with no secteur
\* in the filter every workshop that is not deleted is exported.
C3_AllSecteursUsesFilter ==
    (can("scope:all_secteurs") /\ (PerAtelierServed \/ DashboardServed))
    => /\ response.eff_secteur = normalize_filters(args).secteur
       /\ (PerAtelierServed /\ ~Truthy(args.secteur))
            => RowAteliers = {a \in AtelierIds : ~ateliers[a].is_deleted}
       /\ (PerAtelierServed /\ Truthy(args.secteur))
            => RowAteliers = {a \in AtelierIds :
                                ~ateliers[a].is_deleted
                                /\ ateliers[a].secteur = args.secteur}

\* a caller assigned N with scope:all_secteurs asks for no sector and gets
\* the workshops of both sectors
C3_Witness ==
    /\ can("scope:all_secteurs")
    /\ current_user.secteur_assigne = <<"N">>
    /\ args.secteur = None
    /\ PerAtelierServed
    /\ RowSecteurs = {<<"N">>, <<"S">>}

----------------------------------------------------------------------------
(* Specification of the size caps: any raw max_sessions, max_participants *)

\* raw values paired with every raw value of the other parameter
SampleRaw == {None, <<"-", "5">>, <<"x">>}

\* the request: any raw max_sessions with a sample max_participants, or the
\* converse; a secteur or none; either export mode
InitClamp ==
    /\ current_user \in [caps : SUBSET {"statsimpact:view"},
                          secteur_assigne : {<<"N">>}]
    /\ ateliers = [a \in AtelierIds |->
                     [secteur |-> IF a % 2 = 1 THEN <<"N">> ELSE <<"S">>,
                      is_deleted |-> FALSE]]
    /\ sessions = <<>>
    /\ participants = <<>>
    /\ presences = <<>>
    /\ files = {}
    /\ \E ms \in RawValues, mp \in RawValues, sec \in {None, <<"S">>},
          mode \in {"flat", "per_atelier"} :
          /\ ms \in SampleRaw \/ mp \in SampleRaw
          /\ args = [NoArgs EXCEPT !.max_sessions = ms,
                                   !.max_participants = mp,
                                   !.secteur = sec, !.export_mode = mode,
                                   !.tab = "magato"]
    /\ response = NoResponse
    /\ NoPedago
    /\ inflight = NoRequest

ClampExport == magatomatique_export(args)

ClampDashboard == \E today \in {1} : dashboard_view(args, today, FALSE)

NextClamp == ClampExport \/ ClampDashboard

SpecClamp == InitClamp /\ [][NextClamp]_vars

----------------------------------------------------------------------------
(* Properties of the size caps *)

\* s reads as a decimal integer: digits, after at most one sign, between
\* optional spaces
WellFormedInt(s) ==
    \E lo \in 1..Len(s), hi \in 1..Len(s) :
       /\ lo <= hi
       /\ \A k \in lo..hi :
             s[k] \in {"0", "1", "2", "3", "4", "5", "6", "7", "8", "9"}
       /\ \A k \in 1..Len(s) : k > hi => s[k] = " "
       /\ \A k \in 1..Len(s) :
             k < lo => (s[k] = " " \/ (k = lo - 1 /\ s[k] = "-"))

\* missing, empty or not an integer
Malformed(raw) == raw = None \/ raw = <<>> \/ ~WellFormedInt(raw)

ExportHandled == response.route = "magatomatique_export"

\* C7: on the XLSX export path the caps are within [5,400] and [20,5000]
\* for every raw value, as computed and as passed to compute_magatomatique,
\* and the request is refused only for lack of permission, never for these
\* values.
C7_ExportCapsClamped ==
    ExportHandled
    => /\ response.status \in {200, 403}
       /\ response.status = 403 => (~can_view \/ response.magato.restricted)
       /\ can_view
            => /\ 5 <= response.max_sessions /\ response.max_sessions <= 400
               /\ 20 <= response.max_participants
               /\ response.max_participants <= 5000
       /\ response.magato.computed
            => /\ response.magato.max_sessions = response.max_sessions
               /\ response.magato.max_participants = response.max_participants

\* a negative max_sessions and an oversized max_participants are exported
\* with the caps 5 and 5000
C7_Witness ==
    /\ ExportHandled /\ response.status = 200 /\ response.workbook = "flat"
    /\ args.max_sessions = <<"-", "5">>
    /\ args.max_participants = <<"5", "5", "5", "5">>
    /\ response.magato.max_sessions = 5
    /\ response.magato.max_participants = 5000

\* C8: on the dashboard and on the XLSX export, a missing, empty or
\* non-integer max_sessions (max_participants) is replaced by 40 (250), and
\* the malformed value makes no request fail.
C8_MalformedCapsDefault ==
    (ExportHandled \/ response.route = "dashboard")
    => /\ response.status # 500
       /\ (can_view /\ Malformed(args.max_sessions)
            /\ (response.status = 200 \/ response.magato.computed))
            => response.max_sessions = 40
       /\ (can_view /\ Malformed(args.max_participants)
            /\ (response.status = 200 \/ response.magato.computed))
            => response.max_participants = 250

\* the dashboard is served with the defaults for max_sessions=x and an
\* empty max_participants
C8_Witness ==
    /\ response.route = "dashboard" /\ response.status = 200
    /\ args.max_sessions = <<"x">>
    /\ args.max_participants = <<>>
    /\ response.magato.max_sessions = 40
    /\ response.magato.max_participants = 250

\* C9: a result of compute_magatomatique flagged restricted is never
\* exported nor displayed: the request ends with 403 and no workbook.
C9_RestrictedNeverServed ==
    response.magato.restricted
    => (response.status = 403 /\ response.workbook = "none")

----------------------------------------------------------------------------
(* Specification of the participant actions of the dashboard *)

\* number of participants
NParticipants == 2
\* number of presence rows
NPresences == 2

\* the signature file of presence p
SigPath(p) == [k \in 1..p |-> "s"]

\* a session of sector N, one of sector S, and one of workshop 1 whose own
\* secteur column is not set
DeleteSessions ==
    <<[atelier_id |-> 1, secteur |-> <<"N">>, rdv_date |-> NoDate,
       date_session |-> 1],
      [atelier_id |-> 2, secteur |-> <<"S">>, rdv_date |-> NoDate,
       date_session |-> 1],
      [atelier_id |-> 1, secteur |-> None, rdv_date |-> NoDate,
       date_session |-> 1]>>

DeleteCaps ==
    {{}, {"statsimpact:view"}, {"statsimpact:view", "participants:view_all"},
     {"statsimpact:view", "scope:all_secteurs"}}

\* participant_id of the form: missing, empty, not a number, or a number
RawIds == {None, <<"x">>, <<"0">>} \cup {<<d>> : d \in {"1", "2", "3"}}

UpdateForms ==
    [participant_id : RawIds, nom : {None}, ville : {None},
     type_public : {<<"a">>}]

\* the presence rows, listed in a fixed order of their contents (their ids
\* are arbitrary); every signature file is on disk
PresenceRows ==
    [participant_id : 1..NParticipants, session_id : DOMAIN DeleteSessions,
     signed : BOOLEAN]

RowRank(r) ==
    (r.participant_id * (Len(DeleteSessions) + 1) + r.session_id) * 2
    + (IF r.signed THEN 1 ELSE 0)

InitDelete ==
    /\ current_user \in [caps : DeleteCaps, secteur_assigne : {None, <<"N">>}]
    /\ ateliers = [a \in AtelierIds |->
                     [secteur |-> IF a % 2 = 1 THEN <<"N">> ELSE <<"S">>,
                      is_deleted |-> FALSE]]
    /\ sessions = DeleteSessions
    /\ participants = [p \in 1..NParticipants |->
                         [nom |-> <<"A">>, ville |-> None,
                          type_public |-> <<"H">>]]
    /\ \E rows \in [1..NPresences -> PresenceRows] :
          /\ \A p \in 1..NPresences, q \in 1..NPresences :
                p < q => RowRank(rows[p]) <= RowRank(rows[q])
          /\ presences = [p \in 1..NPresences |->
                            [participant_id |-> rows[p].participant_id,
                             session_id |-> rows[p].session_id,
                             signature_path |->
                                IF rows[p].signed THEN SigPath(p) ELSE None]]
          /\ files = {SigPath(p) : p \in {q \in 1..NPresences : rows[q].signed}}
    /\ args = NoArgs
    /\ response = NoResponse
    /\ NoPedago
    /\ inflight = NoRequest

\* the signature files of the presences in S that are on disk
signature_files(S) ==
    {path \in {presences[p].signature_path : p \in S} :
        Truthy(path) /\ path \in files}

\* a delete request whose try block runs to the commit
DeleteParticipant ==
    \E raw_id \in RawIds :
       LET own == presences_of(form_participant_id(raw_id))
       IN \E unremovable \in SUBSET signature_files(own) :
             dashboard_delete_participant(NoArgs, 1, raw_id, FALSE, own,
                                          unremovable)

\* a delete request whose try block raises
DeleteParticipantFails ==
    \E raw_id \in RawIds :
       \E done \in SUBSET presences_of(form_participant_id(raw_id)) :
          \E unremovable \in SUBSET signature_files(done) :
             dashboard_delete_participant(NoArgs, 1, raw_id, TRUE, done,
                                          unremovable)

UpdateParticipant ==
    \E form \in UpdateForms, commit_fails \in BOOLEAN :
       dashboard_update_participant(NoArgs, 1, form, commit_fails)

NextDelete == DeleteParticipant \/ DeleteParticipantFails \/ UpdateParticipant

SpecDelete == InitDelete /\ [][NextDelete]_vars

----------------------------------------------------------------------------
(* Properties of delete_participant and update_participant *)

Flashed(r, message) ==
    \E i \in 1..Len(r.flash) : r.flash[i].message = message

\* C4: a caller without participants:view_all deletes a participant only
\* if every presence of the participant is in a session of the caller's own
\* sector (or there is none); a presence in another sector, or in a session
\* whose sector is unset, prevents the deletion.
C4_DeleteOnlyOwnSector ==
    [][\A pid \in DOMAIN participants :
          (pid \notin DOMAIN participants' /\ ~can("participants:view_all"))
          => \A p \in PresenceIds :
                presences[p].participant_id = pid
                => /\ sessions[presences[p].session_id].secteur # None
                   /\ IsTrimOf(sessions[presences[p].session_id].secteur,
                               Or(current_user.secteur_assigne, <<>>))]_vars

\* C5: a delete refused by the sector check is answered by one flash of
\* category danger, and no participant, presence or signature file changes.
C5_RefusalReportedNothingChanged ==
    [][Flashed(response', "delete_refused")
       => /\ Len(response'.flash) = 1
          /\ response'.flash[1].category = "danger"
          /\ response'.status = 302
          /\ participants' = participants
          /\ presences' = presences
          /\ files' = files]_vars

\* a caller of sector N was refused the deletion of a participant who has
\* a presence in sector S, with a signature file still on disk
C5_Witness ==
    /\ Flashed(response, "delete_refused")
    /\ current_user.secteur_assigne = <<"N">>
    /\ \E p \in PresenceIds :
          /\ sessions[presences[p].session_id].secteur = <<"S">>
          /\ presences[p].signature_path \in files

\* C6: when the persistence layer fails during update_participant or
\* delete_participant, a failure is reported and the participants, the
\* presences and the signature files are as they were before the request.
C6_FailureRollsBackEverything ==
    [][(Flashed(response', "save_failed") \/ Flashed(response', "delete_failed"))
       => /\ response'.flash[1].category = "danger"
          /\ participants' = participants
          /\ presences' = presences
          /\ files' = files]_vars

----------------------------------------------------------------------------
(* Specification of the per-atelier summary: any sessions and presences *)

\* number of sessions
NSessions == 1
\* number of presence rows of the summary specification
NRows == 2

\* a session of a workshop: without date, a collective session on day d,
\* or an appointment on the last day that also has a date_session
SessionOptions ==
    [atelier_id : AtelierIds, rdv_date : {NoDate}, date_session : {NoDate} \cup Dates]
    \cup [atelier_id : AtelierIds, rdv_date : {MaxDate}, date_session : {1}]

SessionRank(o) ==
    (o.atelier_id * (MaxDate + 1) + o.rdv_date) * (MaxDate + 1) + o.date_session

\* the period of the request: each bound absent or the day before the last
AtelierArgs ==
    {[NoArgs EXCEPT !.export_mode = "per_atelier", !.date_from = df,
                    !.date_to = dt] :
        df \in {NoDate, MaxDate - 1}, dt \in {NoDate, MaxDate - 1}}

\* sessions and presence rows are listed in a fixed order of their contents
InitAtelier ==
    /\ current_user \in
          [caps : {{"statsimpact:view"}, {"statsimpact:view", "scope:all_secteurs"}},
           secteur_assigne : {<<"N">>}]
    /\ \E deleted \in {{}, {1}, AtelierIds} :
          ateliers = [a \in AtelierIds |->
                        [secteur |-> IF a % 2 = 1 THEN <<"N">> ELSE <<"S">>,
                         is_deleted |-> a \in deleted]]
    /\ \E k \in 0..NSessions :
          \E opts \in [1..k -> SessionOptions] :
             /\ \A i \in 1..k, j \in 1..k :
                   i < j => SessionRank(opts[i]) <= SessionRank(opts[j])
             /\ sessions = [i \in 1..k |->
                              [atelier_id |-> opts[i].atelier_id,
                               secteur |-> ateliers[opts[i].atelier_id].secteur,
                               rdv_date |-> opts[i].rdv_date,
                               date_session |-> opts[i].date_session]]
             /\ \E n \in 0..(IF k = 0 THEN 0 ELSE NRows) :
                   \E rows \in [1..n -> [participant_id : 1..NParticipants,
                                          session_id : 1..k]] :
                      /\ \A i \in 1..n, j \in 1..n :
                            i < j => rows[i].participant_id * (k + 1)
                                       + rows[i].session_id
                                     <= rows[j].participant_id * (k + 1)
                                        + rows[j].session_id
                      /\ presences = [i \in 1..n |->
                                        [participant_id |-> rows[i].participant_id,
                                         session_id |-> rows[i].session_id,
                                         signature_path |-> None]]
    /\ participants = [p \in 1..NParticipants |->
                         [nom |-> <<"A">>, ville |-> None,
                          type_public |-> <<"H">>]]
    /\ files = {}
    /\ args \in AtelierArgs
    /\ response = NoResponse
    /\ NoPedago
    /\ inflight = NoRequest

AtelierExport == magatomatique_export(args)

NextAtelier == AtelierExport

SpecAtelier == InitAtelier /\ [][NextAtelier]_vars

----------------------------------------------------------------------------
(* Properties of the per-atelier summary *)

\* workshop a has no session whose date, rdv_date before date_session, is
\* within the requested period
NoSessionInPeriod(a) ==
    ~\E s \in SessionIds :
        LET d == IF sessions[s].rdv_date # NoDate THEN sessions[s].rdv_date
                 ELSE sessions[s].date_session
        IN /\ sessions[s].atelier_id = a
           /\ args.date_from = NoDate \/ (d # NoDate /\ d >= args.date_from)
           /\ args.date_to = NoDate \/ (d # NoDate /\ d <= args.date_to)

ZeroRow(r) ==
    /\ r.nb_sessions = 0 /\ r.nb_presences = 0 /\ r.uniques = 0
    /\ r.nouveaux = 0 /\ r.recurrents = 0

\* C10: every workshop that is not deleted and belongs to the effective
\* sector has exactly one row in the summary, and the row of a workshop
\* without session in the period has its five counts equal to 0.
C10_OneRowPerWorkshop ==
    (PerAtelierServed /\ response.status = 200)
    => /\ \A a \in AtelierIds :
             (/\ ~ateliers[a].is_deleted
              /\ Truthy(response.eff_secteur)
                    => ateliers[a].secteur = response.eff_secteur)
             => Cardinality({i \in 1..Len(response.rows) :
                               response.rows[i].atelier = a}) = 1
       /\ \A i \in 1..Len(response.rows) :
             NoSessionInPeriod(response.rows[i].atelier)
             => ZeroRow(response.rows[i])

\* a workshop whose only session is before the period is listed with zeros
C10_Witness ==
    /\ PerAtelierServed /\ response.status = 200
    /\ args.date_from # NoDate
    /\ \E i \in 1..Len(response.rows) :
          /\ ZeroRow(response.rows[i])
          /\ \E s \in SessionIds :
                /\ sessions[s].atelier_id = response.rows[i].atelier
                /\ sessions[s].date_session < args.date_from
                /\ \E p \in PresenceIds : presences[p].session_id = s

----------------------------------------------------------------------------
(* Specification of the summary counts: several sessions and presences *)

\* number of sessions of the counting specification
NSumSessions == 2
\* largest number of presence rows of the counting specification
NSumRows == 3

\* a collective session of a workshop on a day
SumSessionOptions == [atelier_id : AtelierIds, date_session : Dates]

SumSessionRank(o) == o.atelier_id * (MaxDate + 1) + o.date_session

\* the caller sees every sector and no workshop is deleted; sessions and
\* presence rows are listed in a fixed order of their contents, and the
\* participants with a presence are the first ones
InitSummary ==
    /\ current_user = [caps |-> {"statsimpact:view", "scope:all_secteurs"},
                       secteur_assigne |-> None]
    /\ ateliers = [a \in AtelierIds |->
                     [secteur |-> IF a % 2 = 1 THEN <<"N">> ELSE <<"S">>,
                      is_deleted |-> FALSE]]
    /\ \E opts \in [1..NSumSessions -> SumSessionOptions] :
          /\ \A i \in 1..NSumSessions, j \in 1..NSumSessions :
                i < j => SumSessionRank(opts[i]) <= SumSessionRank(opts[j])
          /\ sessions = [i \in 1..NSumSessions |->
                           [atelier_id |-> opts[i].atelier_id,
                            secteur |-> ateliers[opts[i].atelier_id].secteur,
                            rdv_date |-> NoDate,
                            date_session |-> opts[i].date_session]]
    /\ \E n \in 0..NSumRows :
          \E rows \in [1..n -> [participant_id : 1..NParticipants,
                                 session_id : 1..NSumSessions]] :
             /\ \A i \in 1..n, j \in 1..n :
                   i < j => rows[i].participant_id * (NSumSessions + 1)
                              + rows[i].session_id
                            <= rows[j].participant_id * (NSumSessions + 1)
                               + rows[j].session_id
             /\ \A i \in 1..n :
                   \/ rows[i].participant_id = 1
                   \/ \E j \in 1..n :
                         rows[j].participant_id = rows[i].participant_id - 1
             /\ presences = [i \in 1..n |->
                               [participant_id |-> rows[i].participant_id,
                                session_id |-> rows[i].session_id,
                                signature_path |-> None]]
    /\ participants = [p \in 1..NParticipants |->
                         [nom |-> <<"A">>, ville |-> None,
                          type_public |-> <<"H">>]]
    /\ files = {}
    /\ args \in AtelierArgs
    /\ response = NoResponse
    /\ NoPedago
    /\ inflight = NoRequest

SummaryExport == magatomatique_export(args)

NextSummary == SummaryExport

SpecSummary == InitSummary /\ [][NextSummary]_vars

----------------------------------------------------------------------------
(* Properties of the summary counts *)

\* day d is within the requested period; an absent bound does not constrain
DateInRange(d) ==
    /\ args.date_from = NoDate \/ (d # NoDate /\ d >= args.date_from)
    /\ args.date_to = NoDate \/ (d # NoDate /\ d <= args.date_to)

\* the date of session s: rdv_date when present, else date_session
DateOf(s) ==
    IF sessions[s].rdv_date # NoDate THEN sessions[s].rdv_date
    ELSE sessions[s].date_session

\* the sessions of workshop a within the requested period
SessionsInRange(a) ==
    {s \in SessionIds : sessions[s].atelier_id = a /\ DateInRange(DateOf(s))}

\* the presence rows recorded on the sessions S
PresencesOn(S) == {p \in PresenceIds : presences[p].session_id \in S}

ParticipantsOn(S) == {presences[p].participant_id : p \in PresencesOn(S)}

SummaryServed == PerAtelierServed /\ response.status = 200

\* C11: in each summary row, nb_sessions is the number of the workshop's
\* sessions in the period, nb_presences the number of presence rows on those
\* sessions and uniques the number of distinct participants among them.
C11_SummaryCounts ==
    SummaryServed
    => \A i \in 1..Len(response.rows) :
          LET r == response.rows[i]
              S == SessionsInRange(r.atelier)
          IN /\ r.nb_sessions = Cardinality(S)
             /\ r.nb_presences = Cardinality(PresencesOn(S))
             /\ r.uniques = Cardinality(ParticipantsOn(S))

\* two sessions in the period with presences (X,S1), (X,S2), (Y,S1): 2, 3, 2
C11_Witness ==
    /\ SummaryServed
    /\ \E i \in 1..Len(response.rows) :
          LET r == response.rows[i]
          IN /\ r.nb_sessions = 2 /\ r.nb_presences = 3 /\ r.uniques = 2
             /\ \E x, y \in 1..NParticipants, s1, s2 \in SessionIds :
                   /\ x # y /\ s1 # s2
                   /\ {[participant_id |-> presences[p].participant_id,
                        session_id |-> presences[p].session_id] :
                          p \in PresenceIds}
                      = {[participant_id |-> x, session_id |-> s1],
                         [participant_id |-> x, session_id |-> s2],
                         [participant_id |-> y, session_id |-> s1]}
                   /\ Len(presences) = 3

\* C12: in every summary row the unique-participant count is at most the
\* presence count, and the new and the recurring counts are each at most
\* the unique-participant count.
C12_CountsOrdered ==
    SummaryServed
    => \A i \in 1..Len(response.rows) :
          LET r == response.rows[i]
          IN /\ r.uniques <= r.nb_presences
             /\ r.nouveaux <= r.uniques
             /\ r.recurrents <= r.uniques

\* a row with fewer participants than presences, one of them recurring and
\* new, the other not recurring
C12_Witness ==
    /\ SummaryServed
    /\ \E i \in 1..Len(response.rows) :
          LET r == response.rows[i]
          IN /\ r.uniques = 2 /\ r.nb_presences = 3
             /\ r.recurrents = 1 /\ r.nouveaux = 2

\* the sessions the export has to count: workshop not deleted, workshop in
\* the effective sector when there is one, date within the period
CountedSessions ==
    {s \in SessionIds :
       LET a == sessions[s].atelier_id
       IN /\ ~ateliers[a].is_deleted
          /\ Truthy(response.eff_secteur)
                => ateliers[a].secteur = response.eff_secteur
          /\ DateInRange(DateOf(s))}

\* the number of sessions the summary counts for workshop a
RECURSIVE SessionsShown(_, _)
SessionsShown(a, i) ==
    IF i = 0 THEN 0
    ELSE SessionsShown(a, i - 1)
         + (IF response.rows[i].atelier = a
            THEN response.rows[i].nb_sessions ELSE 0)

\* C13: a session is counted by the per-atelier export if and only if its
\* workshop is not deleted, its workshop's sector is the effective sector
\* when one is set, and its date (rdv_date if present, else date_session) is
\* between date_from and date_to, both inclusive, an absent bound being no
\* constraint: per workshop, the summary counts exactly those sessions.
C13_SessionCountedIffInScope ==
    SummaryServed
    => \A a \in AtelierIds :
          SessionsShown(a, Len(response.rows))
          = Cardinality({s \in CountedSessions : sessions[s].atelier_id = a})

\* a session is left out because its rdv_date is after the period although
\* its date_session is within it
C13_Witness ==
    /\ SummaryServed
    /\ args.date_from # NoDate /\ args.date_to # NoDate
    /\ \E s \in SessionIds :
          /\ sessions[s].rdv_date # NoDate
          /\ sessions[s].rdv_date > args.date_to
          /\ sessions[s].date_session <= args.date_to
          /\ sessions[s].date_session # NoDate
          /\ s \notin CountedSessions
          /\ \E i \in 1..Len(response.rows) :
                /\ response.rows[i].atelier = sessions[s].atelier_id
                /\ response.rows[i].nb_sessions = 0

----------------------------------------------------------------------------
(* _participants_success_rate and _objective_success *)

\* number of competencies
NComps == 2
\* largest number of evaluation rows
NEvals == 2
\* number of objectives of a tree
NObjectifs == 3
\* largest number of presence rows on the session of an objective
NObjPresences == 2

CompIds == 1..NComps

EvalIds == DOMAIN evaluations

ObjIds == DOMAIN objectifs

\* Objectif.session_id is NULL
NoSession == 0

\* Objectif.seuil_validation is NULL
NoSeuil == -1

\* Evaluation.etat: 1 is below the validation state, 2 is validated
EtatValues == {1, 2}

\* the percentage success / total * 100 as the fraction num / den; the
\* thresholds of the model are integers, which the float of the program
\* compares as the fraction does for the totals of the model
Ratio(success, total) ==
    IF total # 0 THEN [num |-> success * 100, den |-> total]
    ELSE [num |-> 0, den |-> 1]

\* the literal ratio 0
ZeroRatio == [num |-> 0, den |-> 1]

\* mutant: the ratio has to exceed the threshold
meets_threshold_strict(ratio, seuil) ==
    ratio.num > (IF seuil = NoSeuil THEN 0 ELSE seuil) * ratio.den

\* ratio >= (obj.seuil_validation or 0)
meets_threshold(ratio, seuil) ==
    ratio.num >= (IF seuil = NoSeuil THEN 0 ELSE seuil) * ratio.den

\* presences: the presence rows of the session
session_presences(session_id) ==
    {p \in PresenceIds : presences[p].session_id = session_id}

\* evals: the number of evaluation rows of the session and the participant
\* on a competency of comp_ids with etat >= 2 (distinct rows are the rows)
evals(session_id, participant_id, comp_ids) ==
    Cardinality({e \in EvalIds :
        /\ evaluations[e].session_id = session_id
        /\ evaluations[e].participant_id = participant_id
        /\ evaluations[e].competence_id \in comp_ids
        /\ evaluations[e].etat >= 2})

\* mutant: every validated evaluation row of the session is a success
success_count_per_evaluation(session_id, comp_ids) ==
    Cardinality({e \in EvalIds :
        /\ evaluations[e].session_id = session_id
        /\ evaluations[e].competence_id \in comp_ids
        /\ evaluations[e].etat >= 2})

\* success_count: the presence rows whose participant has as many such
\* evaluation rows as there are competencies
success_count(session_id, comp_ids) ==
    Cardinality({p \in session_presences(session_id) :
        evals(session_id, presences[p].participant_id, comp_ids)
        = Cardinality(comp_ids)})

participants_success_rate(session_id, competences) ==
    IF competences = {}
    THEN [total |-> 0, success |-> 0, ratio |-> ZeroRatio]
    ELSE LET total == Cardinality(session_presences(session_id))
         IN IF total = 0
            THEN [total |-> 0, success |-> 0, ratio |-> ZeroRatio]
            ELSE LET success == success_count(session_id, competences)
                 IN [total |-> total, success |-> success,
                     ratio |-> Ratio(success, total)]

\* obj.enfants
enfants(o) == {c \in ObjIds : objectifs[c].parent = o}

RECURSIVE objective_success(_)
objective_success(o) ==
    LET obj == objectifs[o]
    IN IF obj.type = "operationnel" /\ obj.session_id # NoSession
       THEN LET stats == participants_success_rate(obj.session_id,
                                                   obj.competences)
            IN [ratio |-> stats.ratio,
                validated |-> meets_threshold(stats.ratio,
                                              obj.seuil_validation),
                total |-> stats.total, success |-> stats.success]
       ELSE IF enfants(o) = {}
            THEN [ratio |-> ZeroRatio, validated |-> FALSE,
                  total |-> 0, success |-> 0]
            ELSE LET total == Cardinality(enfants(o))
                     success == Cardinality({c \in enfants(o) :
                                    objective_success(c).validated})
                     ratio == Ratio(success, total)
                 IN [ratio |-> ratio,
                     validated |-> meets_threshold(ratio,
                                                   obj.seuil_validation),
                     total |-> total, success |-> success]

----------------------------------------------------------------------------
(* Specification of the objective roll-up *)

Seuils == {NoSeuil, 0, 50}

\* one operational objective on session 1 with any presences and evaluations
InitLeaf ==
    /\ \E comps \in SUBSET CompIds, seuil \in Seuils :
          objectifs = <<[type |-> "operationnel", session_id |-> 1,
                         competences |-> comps, seuil_validation |-> seuil,
                         parent |-> 0]>>
    /\ \E n \in 0..NObjPresences :
          \E pids \in [1..n -> 1..NParticipants] :
             /\ \A i \in 1..n, j \in 1..n : i < j => pids[i] <= pids[j]
             /\ presences = [i \in 1..n |->
                               [participant_id |-> pids[i], session_id |-> 1,
                                signature_path |-> None]]
    /\ \E n \in 0..NEvals :
          \E rows \in [1..n -> [participant_id : 1..NParticipants,
                                 competence_id : CompIds,
                                 etat : EtatValues]] :
             /\ \A i \in 1..n, j \in 1..n :
                   i < j => (rows[i].participant_id * (NComps + 1)
                               + rows[i].competence_id) * 3 + rows[i].etat
                            <= (rows[j].participant_id * (NComps + 1)
                                  + rows[j].competence_id) * 3 + rows[j].etat
             /\ evaluations = [i \in 1..n |->
                                 [participant_id |-> rows[i].participant_id,
                                  competence_id |-> rows[i].competence_id,
                                  etat |-> rows[i].etat, session_id |-> 1]]

\* a tree of objectives (the parent of an objective is an earlier one or
\* none), operational on session 1 with competency 1 or general; at most
\* one presence and one validated evaluation
InitTree ==
    /\ \E kinds \in [1..NObjectifs -> {"operationnel", "general"}],
          seuils \in [1..NObjectifs -> Seuils],
          parents \in [1..NObjectifs -> 0..(NObjectifs - 1)] :
          /\ \A o \in 1..NObjectifs : parents[o] < o
          /\ objectifs = [o \in 1..NObjectifs |->
                [type |-> kinds[o],
                 session_id |-> IF kinds[o] = "operationnel" THEN 1
                                ELSE NoSession,
                 competences |-> IF kinds[o] = "operationnel" THEN {1}
                                 ELSE {},
                 seuil_validation |-> seuils[o],
                 parent |-> parents[o]]]
    /\ presences \in {<<>>, <<[participant_id |-> 1, session_id |-> 1,
                               signature_path |-> None]>>}
    /\ evaluations \in {<<>>, <<[participant_id |-> 1, competence_id |-> 1,
                                 etat |-> 2, session_id |-> 1]>>}

InitObjective ==
    /\ current_user = [caps |-> {"statsimpact:view"}, secteur_assigne |-> None]
    /\ ateliers = [a \in AtelierIds |->
                     [secteur |-> IF a % 2 = 1 THEN <<"N">> ELSE <<"S">>,
                      is_deleted |-> FALSE]]
    /\ sessions = <<[atelier_id |-> 1, secteur |-> <<"N">>,
                     rdv_date |-> NoDate, date_session |-> 1]>>
    /\ participants = [p \in 1..NParticipants |->
                         [nom |-> <<"A">>, ville |-> None,
                          type_public |-> <<"H">>]]
    /\ files = {}
    /\ args = NoArgs
    /\ response = NoResponse
    /\ inflight = NoRequest
    /\ result = <<>>
    /\ InitLeaf \/ InitTree

\* _objective_success is applied to every objective
ObjectiveSuccess ==
    /\ result' = [o \in ObjIds |-> objective_success(o)]
    /\ UNCHANGED <<current_user, ateliers, sessions, participants, presences,
                   files, args, response, objectifs, evaluations,
                   inflight>>

NextObjective == ObjectiveSuccess

SpecObjective == InitObjective /\ [][NextObjective]_vars

----------------------------------------------------------------------------
(* Properties of the objective roll-up *)

Computed == result # <<>>

\* objective o is operational and has a session
Operational(o) ==
    objectifs[o].type = "operationnel" /\ objectifs[o].session_id # NoSession

\* the presence rows of the session of objective o
PresentAt(o) ==
    {p \in PresenceIds : presences[p].session_id = objectifs[o].session_id}

\* C14: an operational objective whose session has no presence gets ratio 0,
\* success 0 and validated = (0 >= threshold): validated exactly when the
\* threshold is 0 or unset.
C14_NoPresenceOperational ==
    Computed
    => \A o \in ObjIds :
          (Operational(o) /\ PresentAt(o) = {})
          => /\ result[o].ratio.num = 0
             /\ result[o].success = 0
             /\ result[o].total = 0
             /\ result[o].validated
                  <=> objectifs[o].seuil_validation \in {NoSeuil, 0}

\* an operational objective without presence and with a positive threshold
\* is computed and is not validated
C14_Witness ==
    /\ Computed
    /\ \E o \in ObjIds :
          /\ Operational(o) /\ PresentAt(o) = {}
          /\ objectifs[o].competences # {}
          /\ objectifs[o].seuil_validation > 0
          /\ ~result[o].validated

\* the participant of presence row p has, for competency c, an evaluation
\* of the session of objective o with state >= 2
ValidatedOn(o, p, c) ==
    \E e \in EvalIds :
       /\ evaluations[e].session_id = objectifs[o].session_id
       /\ evaluations[e].participant_id = presences[p].participant_id
       /\ evaluations[e].competence_id = c
       /\ evaluations[e].etat >= 2

\* C15: for an operational objective (with a competency to validate), a
\* participant present at the session counts as a success if and only if
\* they have, for every competency of the objective, an evaluation of that
\* session with state >= 2.
C15_SuccessIffEveryCompetency ==
    Computed
    => \A o \in ObjIds :
          (Operational(o) /\ objectifs[o].competences # {})
          => result[o].success
             = Cardinality({p \in PresentAt(o) :
                  \A c \in objectifs[o].competences : ValidatedOn(o, p, c)})

\* C16: for an operational objective with a session, total is the number
\* of presence rows recorded for that session, whatever the competency set
\* (the empty set included) and also when a participant has several rows.
C16_TotalIsPresenceCount ==
    Computed
    => \A o \in ObjIds :
          Operational(o) => result[o].total = Cardinality(PresentAt(o))

\* objective o has no session: its result is built from its children
Composite(o) == objectifs[o].session_id = NoSession

Children(o) == {c \in ObjIds : objectifs[c].parent = o}

Threshold(o) ==
    IF objectifs[o].seuil_validation = NoSeuil THEN 0
    ELSE objectifs[o].seuil_validation

\* C17: for a composite objective, total is the number of children, success
\* the number of children whose own result is validated, ratio is
\* success / total * 100 (0 without child) and validated is
\* (ratio >= threshold) in every case, the case without child included.
C17_CompositeRollUp ==
    Computed
    => \A o \in ObjIds :
          Composite(o)
          => LET total == Cardinality(Children(o))
                 success == Cardinality({c \in Children(o) :
                                           result[c].validated})
             IN /\ result[o].total = total
                /\ result[o].success = success
                /\ IF total = 0 THEN result[o].ratio.num = 0
                   ELSE result[o].ratio.num * total
                        = success * 100 * result[o].ratio.den
                /\ result[o].validated
                     <=> (result[o].ratio.num
                          >= Threshold(o) * result[o].ratio.den)

\* C18: every ratio returned is between 0 and 100, success never exceeds
\* total, and a ratio over zero items is 0.
C18_RatioIsPercentage ==
    Computed
    => \A o \in ObjIds :
          /\ result[o].ratio.den > 0
          /\ 0 <= result[o].ratio.num
          /\ result[o].ratio.num <= 100 * result[o].ratio.den
          /\ 0 <= result[o].success
          /\ result[o].success <= result[o].total
          /\ result[o].total = 0 => result[o].ratio.num = 0

\* a composite objective at 50 % over an operational child at 100 % with
\* a presence, and a childless objective at 0
C18_Witness ==
    /\ Computed
    /\ \E o, c, z \in ObjIds :
          /\ Composite(o) /\ c \in Children(o) /\ Operational(c)
          /\ result[o].total = 2
          /\ result[o].ratio.num * 2 = 100 * result[o].ratio.den
          /\ result[c].total = 1
          /\ result[c].ratio.num = 100 * result[c].ratio.den
          /\ result[z].total = 0 /\ result[z].ratio.num = 0

----------------------------------------------------------------------------
(* New and recurring participants of the summary *)

\* the presence rows of participant pid in workshop a, over every session
HistoryOf(a, pid) ==
    {p \in PresenceIds :
       /\ presences[p].participant_id = pid
       /\ sessions[presences[p].session_id].atelier_id = a}

\* the date of the first presence ever of participant pid in workshop a
FirstEver(a, pid) ==
    LET days == {DateOf(presences[p].session_id) : p \in HistoryOf(a, pid)}
    IN CHOOSE d \in days : \A e \in days : d <= e

\* C19: with both bounds of the period set, the participants counted as new
\* for a workshop are those whose first presence ever in that workshop,
\* over their whole history, is dated within the period.
C19_NewIsFirstEverInPeriod ==
    (SummaryServed /\ args.date_from # NoDate /\ args.date_to # NoDate)
    => \A i \in 1..Len(response.rows) :
          LET a == response.rows[i].atelier
          IN response.rows[i].nouveaux
             = Cardinality({pid \in 1..NParticipants :
                  /\ HistoryOf(a, pid) # {}
                  /\ DateInRange(FirstEver(a, pid))})

\* C20: the participants of a summary row counted as recurring are those
\* whose number of presences in the workshop, with no date restriction, is
\* at least 2.
C20_RecurringIsTotalCount ==
    SummaryServed
    => \A i \in 1..Len(response.rows) :
          LET a == response.rows[i].atelier
          IN response.rows[i].recurrents
             = Cardinality({pid \in ParticipantsOn(SessionsInRange(a)) :
                  Cardinality(HistoryOf(a, pid)) >= 2})

----------------------------------------------------------------------------
(* Specification of the attendance sheets: more sessions and participants *)
(* than the smallest caps of the export                                    *)

\* sessions and participants beyond the smallest caps
NOverCap == 1
\* largest number of presence rows added to the one of each participant
NMatRows == 2

MatSessionIds == 1..(MinCapSessions + NOverCap)

MatParticipantIds == 1..(MinCapParticipants + NOverCap)

\* the first, second and last of a range of ids
Corners(S) == {1, 2, Cardinality(S)}

\* max_sessions / max_participants: absent, or a value below the floor
MatArgs ==
    {[NoArgs EXCEPT !.export_mode = mode, !.magato_view = "matrix",
                    !.max_sessions = ms, !.max_participants = mp,
                    !.date_from = df] :
        mode \in {"flat", "per_atelier"}, ms \in {None, <<"5">>},
        mp \in {None, <<"0">>}, df \in {NoDate, 2}}

\* every participant has a presence on one session; a few more rows are
\* drawn among the first and last participants and sessions
InitMatrix ==
    /\ current_user = [caps |-> {"statsimpact:view", "scope:all_secteurs"},
                       secteur_assigne |-> None]
    /\ \E deleted \in {{}, {NAteliers}} :
          ateliers = [a \in AtelierIds |->
                        [secteur |-> IF a % 2 = 1 THEN <<"N">> ELSE <<"S">>,
                         is_deleted |-> a \in deleted]]
    /\ sessions = [i \in MatSessionIds |->
                     [atelier_id |-> ((i - 1) % NAteliers) + 1,
                      secteur |-> IF ((i - 1) % NAteliers) % 2 = 0
                                  THEN <<"N">> ELSE <<"S">>,
                      rdv_date |-> NoDate,
                      date_session |-> ((i - 1) % MaxDate) + 1]]
    /\ participants = [p \in MatParticipantIds |->
                         [nom |-> IF p % 2 = 1 THEN <<"A">> ELSE <<"H">>,
                          ville |-> None, type_public |-> <<"H">>]]
    /\ \E n \in 0..NMatRows :
          \E rows \in [1..n -> [participant_id : Corners(MatParticipantIds),
                                 session_id : Corners(MatSessionIds)]] :
             LET base == Cardinality(MatParticipantIds)
                 width == Cardinality(MatSessionIds) + 1
             IN /\ \A i \in 1..n, j \in 1..n :
                      i < j => rows[i].participant_id * width
                                 + rows[i].session_id
                               <= rows[j].participant_id * width
                                  + rows[j].session_id
                /\ presences = [i \in 1..(base + n) |->
                      IF i <= base
                      THEN [participant_id |-> i,
                            session_id |-> ((i - 1) % (width - 1)) + 1,
                            signature_path |-> None]
                      ELSE [participant_id |-> rows[i - base].participant_id,
                            session_id |-> rows[i - base].session_id,
                            signature_path |-> None]]
    /\ files = {}
    /\ args \in MatArgs
    /\ response = NoResponse
    /\ NoPedago
    /\ inflight = NoRequest

MatrixExport == magatomatique_export(args)

NextMatrix == MatrixExport

SpecMatrix == InitMatrix /\ [][NextMatrix]_vars

----------------------------------------------------------------------------
(* Properties of the attendance sheets *)

\* a Presence of participant p at session s exists in the source
HasPresence(p, s) ==
    \E q \in PresenceIds :
       presences[q].participant_id = p /\ presences[q].session_id = s

Listed(seq) == {seq[i] : i \in 1..Len(seq)}

\* the marked cells of a sheet are the listed pairs that have a Presence
SheetSound(sh) ==
    /\ sh.cells \subseteq Listed(sh.rows) \X Listed(sh.columns)
    /\ \A p \in Listed(sh.rows), s \in Listed(sh.columns) :
          <<p, s>> \in sh.cells <=> HasPresence(p, s)

ExportServed ==
    response.route = "magatomatique_export" /\ response.status = 200

\* C21: in the sheets of the per-atelier workbook and in the Matrice and
\* Participations sheets of the flat workbook, a cell is marked only for a
\* pair with a Presence, every listed pair with a Presence is marked, and
\* no cell or row is made for a participant or a session that is not listed.
C21_MatrixMatchesPresences ==
    ExportServed
    => /\ \A i \in 1..Len(response.sheets) : SheetSound(response.sheets[i])
       /\ SheetSound(response.matrice)
       /\ response.matrice.made
            => /\ response.matrice.rows = response.magato.participants
               /\ response.matrice.columns = response.magato.sessions
       /\ response.participations
            = {c \in Listed(response.matrice.rows)
                      \X Listed(response.matrice.columns) :
                 HasPresence(c[1], c[2])}

\* the flat workbook lists fewer sessions and fewer participants than the
\* scope holds; a listed participant has a Presence at a session that is
\* not listed, and a participant that is not listed has a Presence at a
\* listed session
C21_Witness ==
    /\ ExportServed /\ response.matrice.made
    /\ response.matrice.cells # {}
    /\ \E p \in Listed(response.matrice.rows), s \in SessionIds :
          s \notin Listed(response.matrice.columns) /\ HasPresence(p, s)
    /\ \E p \in DOMAIN participants, s \in Listed(response.matrice.columns) :
          p \notin Listed(response.matrice.rows) /\ HasPresence(p, s)

----------------------------------------------------------------------------
(* The routes as the requests reach them *)

\* mutant: every POST that is not an update is handled as a deletion
dashboard_post_deletes(a, today, form, commit_fails, fails, done, unremovable) ==
    IF a.method = "POST" /\ a.action = "update_participant"
    THEN dashboard_update_participant(a, today, form, commit_fails)
    ELSE IF a.method = "POST"
    THEN dashboard_delete_participant(a, today, form.participant_id, fails,
                                      done, unremovable)
    ELSE dashboard_view(a, today, FALSE)

\* dashboard: the two participant actions of a POST, else the page
dashboard(a, today, form, commit_fails, fails, done, unremovable) ==
    IF a.method = "POST" /\ a.action = "update_participant"
    THEN dashboard_update_participant(a, today, form, commit_fails)
    ELSE IF a.method = "POST" /\ a.action = "delete_participant"
    THEN dashboard_delete_participant(a, today, form.participant_id, fails,
                                      done, unremovable)
    ELSE dashboard_view(a, today, FALSE)

\* _query_presence_export: the presence rows of the filtered scope, joined
\* to their participant (the filters are those of the engine)
query_presence_export(flt) ==
    {q \in PresenceIds :
        /\ presences[q].participant_id \in DOMAIN participants
        /\ presences[q].session_id \in magato_sessions(flt)}

\* GET /stats-impact/magatomatique.csv
magatomatique_export_csv(a) ==
    /\ response' =
          IF ~can_view THEN Abort("magatomatique_export_csv", 403)
          ELSE [NoResponse EXCEPT
                  !.route = "magatomatique_export_csv", !.status = 200,
                  !.roster = query_presence_export(normalize_filters(a))]
    /\ UNCHANGED <<current_user, ateliers, sessions, participants,
                   presences, files, args, pedago,
                      inflight>>

\* _pedago_scope_secteur
pedago_scope_secteur ==
    IF can("scope:all_secteurs") THEN None
    ELSE Or(user_secteur_stripped, None)

\* GET /stats/pedagogie for a workshop: the roll-up of its objectives of
\* type specifique (no project is stored)
stats_pedagogie(a) ==
    LET secteur == pedago_scope_secteur
        atelier == a.atelier_id
        found == atelier \in AtelierIds
        shown == IF found
                 THEN {o \in ObjIds : /\ objectifs[o].atelier_id = atelier
                                      /\ objectifs[o].type = "specifique"}
                 ELSE {}
    IN /\ IF ~can_view
          THEN /\ response' = Abort("stats_pedagogie", 403)
               /\ UNCHANGED result
          ELSE IF found /\ Truthy(secteur)
                  /\ ateliers[atelier].secteur # secteur
          THEN /\ response' = Abort("stats_pedagogie", 403)
               /\ UNCHANGED result
          ELSE /\ response' =
                     [NoResponse EXCEPT
                        !.route = "stats_pedagogie", !.status = 200,
                        !.eff_secteur = secteur,
                        !.ateliers =
                           OrderAteliers({x \in AtelierIds :
                              /\ ~ateliers[x].is_deleted
                              /\ Truthy(secteur)
                                    => ateliers[x].secteur = secteur})]
               /\ result' = [o \in shown |-> objective_success(o)]
       /\ UNCHANGED <<current_user, ateliers, sessions, participants,
                      presences, files, args, objectifs, evaluations,
                      inflight>>

----------------------------------------------------------------------------
(* Specification of the requests: every route, GET and POST *)

FrameCaps ==
    {{}, {"statsimpact:view"},
     {"statsimpact:view", "participants:view_all", "scope:all_secteurs"}}

FrameArgs ==
    {[NoArgs EXCEPT !.method = m, !.action = act, !.atelier_id = at,
                    !.export_mode = mode] :
        m \in {"GET", "POST"},
        act \in {"none", "update_participant", "delete_participant",
                 "export"},
        at \in 0..NAteliers, mode \in {"flat", "per_atelier"}}

FrameForms ==
    [participant_id : RawIds, nom : {None, <<"H">>},
     ville : {None}, type_public : {<<"a">>}]

\* participants with a signed presence each, in sector N for the first and
\* in sector S for the others; a workshop objective with an operational
\* child
InitFrame ==
    /\ current_user \in [caps : FrameCaps, secteur_assigne : {<<"N">>}]
    /\ ateliers = [a \in AtelierIds |->
                     [secteur |-> IF a % 2 = 1 THEN <<"N">> ELSE <<"S">>,
                      is_deleted |-> FALSE]]
    /\ sessions = DeleteSessions
    /\ participants = [p \in 1..NParticipants |->
                         [nom |-> <<"A">>, ville |-> None,
                          type_public |-> <<"H">>]]
    /\ presences = [p \in 1..NParticipants |->
                      [participant_id |-> p,
                       session_id |-> IF p = 1 THEN 1 ELSE 2,
                       signature_path |-> SigPath(p)]]
    /\ files = {SigPath(p) : p \in 1..NParticipants}
    /\ objectifs =
          <<[type |-> "specifique", atelier_id |-> 1, session_id |-> NoSession,
             competences |-> {}, seuil_validation |-> 50, parent |-> 0],
            [type |-> "operationnel", atelier_id |-> 1, session_id |-> 1,
             competences |-> {1}, seuil_validation |-> NoSeuil,
             parent |-> 1]>>
    /\ evaluations = <<[participant_id |-> 1, competence_id |-> 1,
                        etat |-> 2, session_id |-> 1]>>
    /\ result = <<>>
    /\ args \in FrameArgs
    /\ response = NoResponse
    /\ inflight = NoRequest

FrameDashboard ==
    \E form \in FrameForms, commit_fails \in BOOLEAN, fails \in BOOLEAN :
       LET own == presences_of(form_participant_id(form.participant_id))
       IN \E done \in (IF fails THEN SUBSET own ELSE {own}) :
             dashboard(args, 1, form, commit_fails, fails, done, {})

FrameExportCsv == args.method = "GET" /\ magatomatique_export_csv(args)

FrameExport == args.method = "GET" /\ magatomatique_export(args)

FrameStatsPedagogie == args.method = "GET" /\ stats_pedagogie(args)

NextFrame ==
    FrameDashboard \/ FrameExportCsv \/ FrameExport \/ FrameStatsPedagogie

SpecFrame == InitFrame /\ [][NextFrame]_vars

----------------------------------------------------------------------------
(* Properties of the requests *)

\* the request is a GET, or a POST whose action is no participant action
StatisticsRequest ==
    \/ args.method = "GET"
    \/ args.action \notin {"update_participant", "delete_participant"}

\* C22: a GET request to dashboard, magatomatique_export_csv,
\* magatomatique_export or stats_pedagogie, and a POST whose action is
\* neither update_participant nor delete_participant, leaves the stored
\* participants, presences, sessions and workshops unchanged.
C22_StatisticsNeverMutate ==
    [][StatisticsRequest
       => /\ participants' = participants /\ presences' = presences
          /\ sessions' = sessions /\ ateliers' = ateliers]_vars

\* a POST with another action is answered with the page, the stored rows
\* being there
C22_Witness ==
    /\ args.method = "POST" /\ args.action = "export"
    /\ response.route = "dashboard" /\ response.status = 200
    /\ response.roster # {}
    /\ DOMAIN participants = 1..NParticipants
    /\ DOMAIN presences = 1..NParticipants

----------------------------------------------------------------------------
(* Specification of the participant update: the submitted type_public *)

TypePublicStored == {None, <<"H">>, <<"a">>}

TypePublicSubmitted == {None, <<>>, <<" ">>, <<"a">>, <<" ", "a">>}

TypeForms ==
    [participant_id : {<<d>> : d \in {"1", "2"}}, nom : {None, <<"B">>},
     ville : {None}, type_public : TypePublicSubmitted]

\* every participant has a presence in the scope of the caller, who may
\* see every sector
InitUpdate ==
    /\ current_user = [caps |-> {"statsimpact:view", "participants:view_all",
                                 "scope:all_secteurs"},
                       secteur_assigne |-> <<"N">>]
    /\ ateliers = [a \in AtelierIds |->
                     [secteur |-> <<"N">>, is_deleted |-> FALSE]]
    /\ sessions = DeleteSessions
    /\ participants \in [1..NParticipants ->
                            [nom : {<<"A">>}, ville : {None},
                             type_public : TypePublicStored]]
    /\ presences = [p \in 1..NParticipants |->
                      [participant_id |-> p, session_id |-> 1,
                       signature_path |-> None]]
    /\ files = {}
    /\ args = [NoArgs EXCEPT !.method = "POST",
                             !.action = "update_participant"]
    /\ response = NoResponse
    /\ NoPedago
    /\ inflight = NoRequest

UpdateTypePublic ==
    \E form \in TypeForms, commit_fails \in BOOLEAN :
       dashboard(args, 1, form, commit_fails, FALSE, {}, {})

NextUpdate == UpdateTypePublic

SpecUpdate == InitUpdate /\ [][NextUpdate]_vars

\* the update of the form is committed by this step
CommittedUpdate(form) ==
    /\ dashboard(args, 1, form, FALSE, FALSE, {}, {})
    /\ response'.status = 302

\* the value the category is to have: the submitted one when given, else
\* the stored one, else "H"
ExpectedTypePublic(form, stored) ==
    IF Truthy(form.type_public) THEN Upper(Strip(form.type_public))
    ELSE IF Truthy(stored) THEN Upper(Strip(stored))
    ELSE <<"H">>

\* C23: after a committed update_participant the participant's type_public
\* is a non-empty upper-case value, the submitted value when one is given,
\* else the stored one, else "H"; a whitespace-only submitted value does
\* not leave it empty.
C23_TypePublicNeverEmpty ==
    [][\A form \in TypeForms :
          CommittedUpdate(form)
          => LET id == form_participant_id(form.participant_id)
                 type_public == participants'[id].type_public
             IN /\ type_public # None /\ Len(type_public) > 0
                /\ type_public = Upper(type_public)
                /\ type_public =
                      ExpectedTypePublic(form, participants[id].type_public)]_vars

----------------------------------------------------------------------------
(* The deletion of a participant among concurrent requests: the handler
   reads the presences twice, once for the sector check and once in its
   try block, and other requests commit between the two reads *)

\* the presence rows other requests may add while a delete is in flight
NRacePresences == 1

\* delete_participant up to the sector check: the request is answered, or
\* it goes on to its try block with the presences the check has read
delete_check(a, today, raw_id) ==
    LET participant_id == form_participant_id(raw_id)
    IN /\ inflight = NoRequest
       /\ UNCHANGED <<current_user, ateliers, sessions, participants,
                      presences, files, args, pedago>>
       /\ IF ~can_view
          THEN /\ response' = Abort("dashboard_post", 403)
               /\ UNCHANGED inflight
          ELSE IF participant_id = 0 \/ participant_id \notin allowed_ids(a, today)
          THEN /\ response' = Abort("dashboard_post", 403)
               /\ UNCHANGED inflight
          ELSE IF participant_id \notin DOMAIN participants
          THEN /\ response' = Abort("dashboard_post", 404)
               /\ UNCHANGED inflight
          ELSE IF delete_refused(participant_id)
          THEN /\ response' = Redirect("danger", "delete_refused")
               /\ UNCHANGED inflight
          ELSE /\ inflight' = [participant_id |-> participant_id,
                               checked |-> presences_of(participant_id)]
               /\ UNCHANGED response

\* the try block of delete_participant: the second query of the presences,
\* their deletion, the deletion of the participant and the commit.
\* snapshot: the transaction reads the rows as they were at its first
\* query (the isolation level is the database's); constrained: the
\* database refuses to delete a participant that a presence references
delete_try(snapshot, constrained) ==
    LET participant_id == inflight.participant_id
        current == presences_of(participant_id)
        seen == IF snapshot THEN inflight.checked \cap PresenceIds
                ELSE current
    IN /\ inflight # NoRequest
       /\ inflight' = NoRequest
       /\ UNCHANGED <<current_user, ateliers, sessions, args, pedago>>
       /\ files' = files \ removed_files(seen, {})
       /\ IF participant_id \notin DOMAIN participants
             \/ (constrained /\ current # seen)
          THEN /\ response' = Redirect("danger", "delete_failed")
               /\ UNCHANGED <<participants, presences>>
          ELSE /\ response' = Redirect("success", "participant_deleted")
               /\ presences' = [p \in PresenceIds \ seen |-> presences[p]]
               /\ participants' =
                     [p \in DOMAIN participants \ {participant_id} |->
                         participants[p]]

\* another request commits a presence of a participant at a session
add_presence(participant_id, session_id) ==
    LET id == IF PresenceIds = {} THEN 1
              ELSE 1 + CHOOSE m \in PresenceIds : \A q \in PresenceIds : q <= m
    IN /\ participant_id \in DOMAIN participants
       /\ presences' =
             [p \in PresenceIds \cup {id} |->
                IF p = id
                THEN [participant_id |-> participant_id,
                      session_id |-> session_id, signature_path |-> None]
                ELSE presences[p]]
       /\ UNCHANGED <<current_user, ateliers, sessions, participants, files,
                      args, response, pedago, inflight>>

\* a caller of sector N, with or without participants:view_all; every
\* participant has signed in a session of sector N
InitRace ==
    /\ current_user \in
          [caps : {{"statsimpact:view"},
                   {"statsimpact:view", "participants:view_all"}},
           secteur_assigne : {<<"N">>}]
    /\ ateliers = [a \in AtelierIds |->
                     [secteur |-> IF a % 2 = 1 THEN <<"N">> ELSE <<"S">>,
                      is_deleted |-> FALSE]]
    /\ sessions = DeleteSessions
    /\ participants = [p \in 1..NParticipants |->
                         [nom |-> <<"A">>, ville |-> None,
                          type_public |-> <<"H">>]]
    /\ presences = [p \in 1..NParticipants |->
                      [participant_id |-> p, session_id |-> 1,
                       signature_path |-> SigPath(p)]]
    /\ files = {SigPath(p) : p \in 1..NParticipants}
    /\ args = [NoArgs EXCEPT !.method = "POST",
                             !.action = "delete_participant"]
    /\ response = NoResponse
    /\ NoPedago
    /\ inflight = NoRequest

DeleteCheck == \E raw_id \in RawIds : delete_check(args, 1, raw_id)

DeleteTry ==
    \E snapshot \in BOOLEAN, constrained \in BOOLEAN :
       delete_try(snapshot, constrained)

\* the requests that commit while a delete is in flight
AddPresence ==
    /\ inflight # NoRequest
    /\ Cardinality(PresenceIds) < NParticipants + NRacePresences
    /\ \E participant_id \in DOMAIN participants, session_id \in SessionIds :
          add_presence(participant_id, session_id)

NextRace == DeleteCheck \/ DeleteTry \/ AddPresence

SpecRace == InitRace /\ [][NextRace]_vars

\* the try block of the request in flight commits by this step
DeleteCommitted ==
    /\ inflight # NoRequest /\ inflight' = NoRequest
    /\ inflight.participant_id \notin DOMAIN participants'

\* the presence rows this step removes
Removed == PresenceIds \ DOMAIN presences'

\* C24: whatever presences other requests add for the participant while a
\* delete_participant of a caller without participants:view_all is in
\* flight, the delete removes no presence of a session of another sector
\* than the caller's: the presences it deletes are those its sector check
\* has read.
C24_DeletedAreChecked ==
    [][(DeleteCommitted /\ ~can("participants:view_all"))
       => /\ Removed = inflight.checked
          /\ \A p \in Removed :
                Truthy(sessions[presences[p].session_id].secteur)
                => sessions[presences[p].session_id].secteur
                     = user_secteur_stripped]_vars

----------------------------------------------------------------------------
(* Properties of the participant actions: rejected ids, committed deletes *)

\* the roster computed for the caller's filter and scope
Roster == compute_participants_stats(dashboard_filters(args, 1))

\* the submitted id is missing, not a number, zero, or not in the roster
BadParticipantId(raw) ==
    \/ raw = None
    \/ ParseInt(raw).raised
    \/ ParseInt(raw).val = 0
    \/ ParseInt(raw).val \notin Roster

\* this step is an update_participant or a delete_participant request that
\* submits raw as its participant_id
ParticipantRequest(raw) ==
    /\ args.method = "POST"
    /\ args.action \in {"update_participant", "delete_participant"}
    /\ \E form \in FrameForms, commit_fails \in BOOLEAN, fails \in BOOLEAN,
          done \in SUBSET presences_of(form_participant_id(raw)) :
          /\ form.participant_id = raw
          /\ dashboard(args, 1, form, commit_fails, fails, done, {})

\* this step answers 403 and changes no participant and no presence
Rejected ==
    /\ response'.status = 403
    /\ participants' = participants
    /\ presences' = presences

\* C25: an update_participant or delete_participant request whose
\* participant_id is missing, unparseable, zero or not in the roster of the
\* caller's filter and scope is rejected with 403 and leaves every
\* participant and every presence unchanged.
C25_BadIdRejected ==
    [][\A raw \in RawIds :
          (BadParticipantId(raw) /\ ParticipantRequest(raw)) => Rejected]_vars

\* a caller who may view, and whose roster is not empty, was answered 403
\* on a participant request: a stored participant is outside the roster
C25_Witness ==
    /\ args.method = "POST"
    /\ args.action \in {"update_participant", "delete_participant"}
    /\ response.route = "dashboard_post" /\ response.status = 403
    /\ can_view
    /\ Roster # {}
    /\ DOMAIN participants \ Roster # {}
    /\ DOMAIN participants = 1..NParticipants

\* no presence references a participant that is not stored
NoDanglingPresence ==
    \A p \in PresenceIds : presences[p].participant_id \in DOMAIN participants

\* this step commits the deletion of participant id
DeleteCommits(id) ==
    /\ Flashed(response', "participant_deleted")
    /\ id \in DOMAIN participants
    /\ id \notin DOMAIN participants'

\* C26: a delete_participant that commits removes the participant and
\* every presence that references it and leaves every other participant
\* and presence unchanged; hence, from a consistent store, after any
\* sequence of updates and deletes no presence references a participant
\* that no longer exists.
C26_DeleteRemovesParticipantAndPresences ==
    /\ [][Flashed(response', "participant_deleted")
          => \E id \in DOMAIN participants :
                /\ DeleteCommits(id)
                /\ participants' =
                      [p \in DOMAIN participants \ {id} |-> participants[p]]
                /\ presences' =
                      [p \in {q \in PresenceIds :
                                 presences[q].participant_id # id} |->
                         presences[p]]]_vars
    /\ []NoDanglingPresence

\* a participant with a presence was deleted while another participant
\* and its presence stay
C26_Witness ==
    /\ Flashed(response, "participant_deleted")
    /\ Cardinality(DOMAIN participants) = NParticipants - 1
    /\ Cardinality(PresenceIds) = NPresences - 1
    /\ PresenceIds # {}
    /\ NoDanglingPresence

====
